---- MODULE Spec2Model ----
(***************************************************************************)
(* riskscan: the TikTok authorization-and-ingestion pipeline               *)
(* (app/tiktok/routers.py, app/tiktok/models.py).                          *)
(*                                                                         *)
(* The application is a FastAPI service.  Each worker process owns one     *)
(* PKCE_CACHE dictionary and one event loop; all workers share the         *)
(* relational store (tiktok_users, tiktok_videos).  `async def` handlers   *)
(* (callback, ingest) give up their worker's event loop only at an await   *)
(* (the HTTP calls); handlers on different workers interleave at the       *)
(* granularity of single database statements.  `def` handlers (login,      *)
(* login_url) run in the thread pool and are one dictionary store each.    *)
(***************************************************************************)
EXTENDS Integers, Sequences, FiniteSets, TLC

\* ---------------------------------------------------------------- bounds
NumWorkers   == 2     \* worker processes serving requests
NumLogins    == 2     \* login / login_url requests
NumCallbacks == 2     \* callback requests
NumIngests   == 2     \* ingest requests
NumAccounts  == 2     \* distinct remote accounts (open_id values)
MaxPage      == 2     \* longest video list the remote API returns
Tick         == 660   \* seconds by which the clock advances in one step
MaxClock     == 660   \* the clock stops advancing once it reached this
ExpiresIn    == 3600  \* expires_in of the token responses
NumReauth    == 1     \* callbacks that run while ingests resolve their user
MaxWords     == 4     \* longest caption scored on its own, in tokens
MaxDets      == 4     \* longest list of detections scored on its own
MaxRows      == 3     \* most rows of tiktok_videos a listing pages through

\* Session lifetime of the specification, in seconds (10 minutes).
TTL == 600

None == "None"

Workers   == 1..NumWorkers
Callbacks == 1..NumCallbacks
Ingests   == 1..NumIngests

\* ------------------------------------------------------------ environment
\* The process environments the service may be started in: nothing set, or
\* all three variables set.
Environments ==
  { [TIKTOK_CLIENT_KEY |-> None, TIKTOK_CLIENT_SECRET |-> None,
     TIKTOK_REDIRECT_URI |-> None],
    [TIKTOK_CLIENT_KEY |-> "awx-key", TIKTOK_CLIENT_SECRET |-> "s3cret",
     TIKTOK_REDIRECT_URI |-> "https://riskscan.example/tiktok/callback"] }

getenv(environ, name, default) ==
  IF environ[name] = None THEN default ELSE environ[name]

VARIABLES
  environ,        \* os.environ at import time
  autoflush,      \* the Session factory's autoflush setting (app/database.py)
  now,            \* wall clock, seconds
  logins,         \* the login responses issued so far, in order
  PKCE_CACHE,     \* per worker: state -> code_verifier
  cb,             \* callback requests
  ing,            \* ingest requests
  tiktok_users,   \* table tiktok_users, in id order
  tiktok_videos,  \* table tiktok_videos, in id order
  ret             \* the last value returned by a read-only call

vars == <<ret, environ, autoflush, now, logins, PKCE_CACHE, cb, ing,
          tiktok_users, tiktok_videos>>

TIKTOK_CLIENT_KEY    == getenv(environ, "TIKTOK_CLIENT_KEY", "xxx")
TIKTOK_CLIENT_SECRET == getenv(environ, "TIKTOK_CLIENT_SECRET", "xxx")
TIKTOK_REDIRECT_URI  ==
  getenv(environ, "TIKTOK_REDIRECT_URI", "http://localhost:8000/tiktok/callback")

\* ------------------------------------------------------------------ PKCE
\* uuid4() and secrets.token_urlsafe(64): the n-th draw is a fresh value.
uuid4(n)         == "state-" \o ToString(n)
token_urlsafe(n) == "verifier-" \o ToString(n)

\* base64url(sha256(v)) without padding: a fixed injective image of v.
S256(v) == "S256:" \o v

\* A pair whose challenge is not derived from its own verifier.
_generate_pkce_pair_stale(n) ==
  LET code_verifier == token_urlsafe(n)
  IN  <<code_verifier, S256(token_urlsafe(1))>>

_generate_pkce_pair(n) ==
  LET code_verifier == token_urlsafe(n)
  IN  <<code_verifier, S256(code_verifier)>>

_build_auth_url(state, code_challenge) ==
  [client_key |-> TIKTOK_CLIENT_KEY, response_type |-> "code",
   redirect_uri |-> TIKTOK_REDIRECT_URI, state |-> state,
   code_challenge |-> code_challenge, code_challenge_method |-> "S256"]

\* A lookup that leaves the entry in place (dict.get instead of dict.pop).
DictPop_get(d, key) ==
  IF key \in DOMAIN d THEN <<d[key], d>> ELSE <<None, d>>

\* dict.pop(key, None) : <<value, dict without key>>
DictPop(d, key) ==
  IF key \in DOMAIN d
    THEN <<d[key], [k \in DOMAIN d \ {key} |-> d[k]]>>
    ELSE <<None, d>>

\* d[key] = value
DictSet(d, key, value) ==
  [k \in DOMAIN d \cup {key} |-> IF k = key THEN value ELSE d[k]]

EmptyDict == [k \in {} |-> None]

\* ---------------------------------------------------------------- tables
\* class TikTokUser: one row of tiktok_users.
TikTokUser(id, open_id, access_token, refresh_token, expires_at, display_name, avatar_url) ==
  [id |-> id, open_id |-> open_id, access_token |-> access_token,
   refresh_token |-> refresh_token, expires_at |-> expires_at,
   display_name |-> display_name, avatar_url |-> avatar_url]

\* The result of a query that found no row, and the absence of a profile.
NoRow  == TikTokUser(0, None, None, None, 0, None, None)
NoUser == [open_id |-> None, display_name |-> None, avatar_url |-> None]

\* tiktok_users.open_id without its unique index.
UserUnique_off(open_id) == TRUE

\* Column(String, unique=True) on tiktok_users.open_id.
UserUnique(open_id) ==
  \A k \in 1..Len(tiktok_users) : tiktok_users[k].open_id # open_id

\* db.query(TikTokUser).filter_by(open_id=open_id).first()
UserByOpenId(open_id) ==
  IF \E k \in 1..Len(tiktok_users) : tiktok_users[k].open_id = open_id
    THEN tiktok_users[CHOOSE k \in 1..Len(tiktok_users) :
                        /\ tiktok_users[k].open_id = open_id
                        /\ \A j \in 1..(k - 1) : tiktok_users[j].open_id # open_id]
    ELSE NoRow

\* Python truthiness of an optional string, and `a or b`.
Truthy(a) == a # None /\ a # ""
Or(a, b)  == IF Truthy(a) THEN a ELSE b

\* -------------------------------------------------------------- requests
OpenIds  == { "open-" \o ToString(k) : k \in 1..NumAccounts }
ProfilesNamed(names) ==
  { [open_id |-> o, display_name |-> d, avatar_url |-> None] :
      o \in OpenIds, d \in names }

\* What a callback request holds: its position, its arguments, its locals.
\* A request that has returned keeps only its state argument, the verifier
\* it popped and its response (status and detail).
IdleCallback ==
  [pc |-> "idle", worker |-> 0, state |-> None, code_verifier |-> None,
   tok |-> 0, access_token |-> None, refresh_token |-> None, expires_at |-> 0,
   uinfo |-> 0, user |-> NoUser, rec |-> NoRow, status |-> 0, detail |-> None]

\* What an ingest request holds.  known is history: the ids of its page that
\* were stored when the list response arrived.  A request that has returned
\* keeps only the upstream status, its count and its response (status and
\* detail).
IdleIngest ==
  [pc |-> "idle", worker |-> 0, user_id |-> 0, access_token |-> None,
   r |-> 0, vids |-> <<>>, known |-> {}, i |-> 0, staged |-> <<>>,
   cnt |-> 0, status |-> 0, detail |-> None]

\* The request has returned with this status: its locals are gone.
ReturnCallback(r, status, detail) ==
  [IdleCallback EXCEPT !.pc = "done", !.state = r.state,
                       !.code_verifier = r.code_verifier, !.status = status,
                       !.detail = detail]

ReturnIngest(r, status, detail) ==
  [IdleIngest EXCEPT !.pc = "done", !.r = r.r, !.cnt = r.cnt,
                     !.status = status, !.detail = detail]

\* main.py, lines 39-62: the home page.
HOME_HTML == "<main> RiskScan home page </main>"

\* What the application answers when a handler raises HTTPException: the
\* handler registered for 404 (main.py, lines 143-145) answers 200 with the
\* home page; a status that allows no body (below 200, 204, 205, 304) is
\* answered without one; any other status is answered with the detail.
HTTPException(status_code, detail) ==
  IF status_code = 404
    THEN [status |-> 200, detail |-> HOME_HTML]
    ELSE IF status_code < 200 \/ status_code \in {204, 205, 304}
           THEN [status |-> status_code, detail |-> None]
           ELSE [status |-> status_code, detail |-> detail]

\* The request ends in an HTTPException.
RaiseCallback(r, status_code, detail) ==
  ReturnCallback(r, HTTPException(status_code, detail).status,
                 HTTPException(status_code, detail).detail)

RaiseIngest(r, status_code, detail) ==
  ReturnIngest(r, HTTPException(status_code, detail).status,
               HTTPException(status_code, detail).detail)

\* The body (.text) of an upstream response with this status.
ResponseText(status_code) == "upstream body " \o ToString(status_code)

\* The async requests that hold worker w's event loop: they are between two
\* database statements of one handler, with no await in between.
Busy(w) ==
  { <<"callback", c>> : c \in { x \in Callbacks :
        cb[x].worker = w /\ cb[x].pc = "upsert" } }
  \cup
  { <<"ingest", g>> : g \in { x \in Ingests :
        ing[x].worker = w /\ ing[x].pc \in {"loop", "commit"} } }

LoopFree(w, self) == Busy(w) \subseteq {self}

\* No read-only call was made yet.
NoCall == [fn |-> "none", arg |-> <<>>, out |-> <<>>]

\* The workers a new request may arrive at.  Workers that hold no session and
\* serve no request are interchangeable: only the first of them is tried.
InUse ==
  { logins[k].worker : k \in 1..Len(logins) }
  \cup ({ cb[c].worker : c \in Callbacks } \ {0})
  \cup ({ ing[g].worker : g \in Ingests } \ {0})

Arrivals ==
  { w \in Workers : w \in InUse \/ \A x \in Workers \ InUse : w <= x }

Init ==
  /\ environ \in Environments
  /\ autoflush \in BOOLEAN
  /\ now = 0
  /\ logins = <<>>
  /\ PKCE_CACHE = [w \in Workers |-> EmptyDict]
  /\ cb = [c \in Callbacks |-> IdleCallback]
  /\ ing = [g \in Ingests |-> IdleIngest]
  /\ tiktok_users = <<>>
  /\ tiktok_videos = <<>>
  /\ ret = NoCall

\* Time passes.
Advance ==
  /\ now < MaxClock
  /\ now' = now + Tick
  /\ UNCHANGED <<ret, environ, autoflush, logins, PKCE_CACHE, cb, ing,
                 tiktok_users, tiktok_videos>>

\* ----------------------------------------------------------------- login
StartLogin(w) ==
  LET n             == Len(logins) + 1
      state         == uuid4(n)
      pair          == _generate_pkce_pair(n)
      code_verifier == pair[1]
      code_challenge == pair[2]
  IN  /\ n <= NumLogins
      /\ PKCE_CACHE' = [PKCE_CACHE EXCEPT ![w] = DictSet(@, state, code_verifier)]
      /\ logins' = Append(logins,
           [worker |-> w, state |-> state, code_verifier |-> code_verifier,
            auth_url |-> _build_auth_url(state, code_challenge), at |-> now])
      /\ UNCHANGED <<ret, environ, autoflush, now, cb, ing, tiktok_users, tiktok_videos>>

\* GET /tiktok/login-url
login_url(w) == StartLogin(w)

\* GET /tiktok/login
login(w) == StartLogin(w)

\* -------------------------------------------------------------- callback
\* The state query parameters tried: absent, empty, never issued, issued.
StateInputs ==
  {None, "", uuid4(0)} \cup { logins[k].state : k \in 1..Len(logins) }

\* A callback without the check of the popped verifier: it goes on to the
\* token request with whatever the lookup gave.
callback_consume_unchecked(c, w, state) ==
  LET popped        == DictPop(PKCE_CACHE[w], Or(state, ""))
      code_verifier == popped[1]
  IN  /\ cb[c].pc = "idle"
      /\ \A x \in Callbacks : x < c => cb[x].pc # "idle"
      /\ LoopFree(w, <<"callback", c>>)
      /\ PKCE_CACHE' = [PKCE_CACHE EXCEPT ![w] = popped[2]]
      /\ cb' = [cb EXCEPT ![c] =
           [@ EXCEPT !.pc = "token", !.worker = w, !.state = state,
                     !.code_verifier = code_verifier]]
      /\ UNCHANGED <<ret, environ, autoflush, now, logins, ing, tiktok_users, tiktok_videos>>

\* callback, lines 113-128: pop the verifier, then post the token request.
callback_consume(c, w, state) ==
  LET popped        == DictPop(PKCE_CACHE[w], Or(state, ""))
      code_verifier == popped[1]
  IN  /\ cb[c].pc = "idle"
      /\ \A x \in Callbacks : x < c => cb[x].pc # "idle"
      /\ LoopFree(w, <<"callback", c>>)
      /\ PKCE_CACHE' = [PKCE_CACHE EXCEPT ![w] = popped[2]]
      /\ cb' = [cb EXCEPT ![c] =
           IF ~Truthy(code_verifier)
             THEN RaiseCallback([@ EXCEPT !.state = state], 400,
                                "Missing PKCE verifier; start login again.")
             ELSE [@ EXCEPT !.pc = "token", !.worker = w, !.state = state,
                            !.code_verifier = code_verifier]]
      /\ UNCHANGED <<ret, environ, autoflush, now, logins, ing, tiktok_users, tiktok_videos>>

\* The form posted to TIKTOK_TOKEN_URL by callback c (lines 119-126).
TokenRequest(c) ==
  [client_key |-> TIKTOK_CLIENT_KEY, client_secret |-> TIKTOK_CLIENT_SECRET,
   grant_type |-> "authorization_code", redirect_uri |-> TIKTOK_REDIRECT_URI,
   code_verifier |-> cb[c].code_verifier]

\* A callback that puts the verifier back when the token exchange fails.
callback_token_restore(c, status_code, refresh_token) ==
  /\ cb[c].pc = "token"
  /\ LoopFree(cb[c].worker, <<"callback", c>>)
  /\ cb' = [cb EXCEPT ![c] =
       IF status_code # 200
         THEN RaiseCallback(@, status_code, ResponseText(status_code))
         ELSE [@ EXCEPT !.pc = "profile", !.tok = status_code,
                        !.access_token = "access-" \o ToString(c),
                        !.refresh_token = refresh_token,
                        !.expires_at = now + ExpiresIn]]
  /\ PKCE_CACHE' =
       IF status_code # 200
         THEN [PKCE_CACHE EXCEPT ![cb[c].worker] =
                 DictSet(@, cb[c].state, cb[c].code_verifier)]
         ELSE PKCE_CACHE
  /\ UNCHANGED <<ret, environ, autoflush, now, logins, ing, tiktok_users, tiktok_videos>>

\* callback, lines 128-141: the token response arrives.
callback_token(c, status_code, refresh_token) ==
  /\ cb[c].pc = "token"
  /\ LoopFree(cb[c].worker, <<"callback", c>>)
  /\ cb' = [cb EXCEPT ![c] =
       IF status_code # 200
         THEN RaiseCallback(@, status_code, ResponseText(status_code))
         ELSE [@ EXCEPT !.pc = "profile", !.tok = status_code,
                        !.access_token = "access-" \o ToString(c),
                        !.refresh_token = refresh_token,
                        !.expires_at = now + ExpiresIn]]
  /\ UNCHANGED <<ret, environ, autoflush, now, logins, PKCE_CACHE, ing,
                 tiktok_users, tiktok_videos>>

\* A callback that goes on to the upsert whatever the profile call answered.
callback_profile_unchecked(c, status_code, user) ==
  /\ cb[c].pc = "profile"
  /\ LoopFree(cb[c].worker, <<"callback", c>>)
  /\ cb' = [cb EXCEPT ![c] =
       [@ EXCEPT !.pc = "upsert", !.uinfo = status_code, !.user = user,
                 !.rec = UserByOpenId(user.open_id)]]
  /\ UNCHANGED <<ret, environ, autoflush, now, logins, PKCE_CACHE, ing,
                 tiktok_users, tiktok_videos>>

\* callback, lines 141-147: the profile response arrives; look the row up.
callback_profile(c, status_code, user) ==
  /\ cb[c].pc = "profile"
  /\ LoopFree(cb[c].worker, <<"callback", c>>)
  /\ cb' = [cb EXCEPT ![c] =
       IF status_code # 200
         THEN RaiseCallback(@, status_code, ResponseText(status_code))
         ELSE [@ EXCEPT !.pc = "upsert", !.uinfo = status_code, !.user = user,
                        !.rec = UserByOpenId(user.open_id)]]
  /\ UNCHANGED <<ret, environ, autoflush, now, logins, PKCE_CACHE, ing,
                 tiktok_users, tiktok_videos>>

\* The UPDATE the unit of work emits for a loaded row: only the attributes
\* whose assigned value differs from the loaded one are written.
Assign(row, loaded, field, value) ==
  IF value = loaded[field] THEN row ELSE [row EXCEPT ![field] = value]

\* callback, lines 148-163: the row callback c adds or changes.  expires_at
\* is assigned a new aware datetime, which never equals the naive one the
\* row was loaded with: it is part of every UPDATE.
Upsert(c) ==
  LET r  == cb[c]
      u1 == Assign(tiktok_users[r.rec.id], r.rec, "access_token", r.access_token)
      u2 == Assign(u1, r.rec, "refresh_token", r.refresh_token)
      u3 == [u2 EXCEPT !.expires_at = r.expires_at]
      u4 == Assign(u3, r.rec, "display_name",
                   Or(r.user.display_name, r.rec.display_name))
      u5 == Assign(u4, r.rec, "avatar_url",
                   Or(r.user.avatar_url, r.rec.avatar_url))
  IN  IF r.rec = NoRow
        THEN Append(tiktok_users,
               TikTokUser(Len(tiktok_users) + 1, r.user.open_id, r.access_token,
                          r.refresh_token, r.expires_at,
                          r.user.display_name, r.user.avatar_url))
        ELSE [tiktok_users EXCEPT ![r.rec.id] = u5]

\* callback, lines 164-166: db.commit().  An INSERT that breaks the unique
\* index on open_id raises IntegrityError: the request ends in a 500.
callback_commit(c) ==
  /\ cb[c].pc = "upsert"
  /\ IF cb[c].rec = NoRow /\ ~UserUnique(cb[c].user.open_id)
       THEN /\ cb' = [cb EXCEPT ![c] = ReturnCallback(@, 500, "Internal Server Error")]
            /\ UNCHANGED tiktok_users
       ELSE /\ tiktok_users' = Upsert(c)
            /\ cb' = [cb EXCEPT ![c] = ReturnCallback(@, 200, "ok")]
  /\ UNCHANGED <<ret, environ, autoflush, now, logins, PKCE_CACHE, ing, tiktok_videos>>

\* --------------------------------------------------------------- scoring
\* A caption is modelled by its lower-cased tokens; a JSON null is Null.
Text(words) == [null |-> FALSE, words |-> words]
Null        == [null |-> TRUE, words |-> <<>>]

\* Truthiness of an optional caption, and `a or b` over captions.
CaptionTruthy(c) == ~c.null /\ c.words # <<>>
CaptionOr(a, b)  == IF CaptionTruthy(a) THEN a ELSE b

HasWord(words, set) == \E k \in 1..Len(words) : words[k] \in set
HasPair(words, first, second) ==
  \E k \in 1..(Len(words) - 1) : words[k] \in first /\ words[k + 1] \in second

Numbers   == {"1200", "500"}
Handles   == {"@bob"}
Phones    == {"704-555-0199"}
Emails    == {"a@b.com"}
Weekdays  == {"mon", "tue", "wed", "thu", "fri", "sat", "sun"}
Clocks    == {"5pm", "9:30am"}
Vocabulary ==
  {"working", "a", "shift", "at", "the", "campus", "coffee", "shop", "see",
   "you", "tonight", "near", "uncc", "had", "great", "day", "call", "me",
   "or", "email", "every", "work", "host", "bartend", "on", "duty", "job",
   "charlotte", "clt", "uptown", "south", "end", "noda", "plaza", "midwood",
   "main", "st"}
   \cup Numbers \cup Handles \cup Phones \cup Emails \cup Weekdays \cup Clocks

\* LOC_PAT.search(caption)
LOC_PAT(words) ==
  \/ HasWord(words, {"uncc", "charlotte", "clt", "uptown", "noda"})
  \/ HasPair(words, {"south"}, {"end"})
  \/ HasPair(words, {"plaza"}, {"midwood"})
  \/ HasPair(words, Numbers \cup Phones, Vocabulary \ Handles)

\* CONTACT_PAT.search(caption): a handle, a phone number (written in one
\* token, or as three numbers of 3, 3 and 4 digits in a row) or an email.
CONTACT_PAT(words) ==
  \/ HasWord(words, Handles \cup Phones \cup Emails)
  \/ \E k \in 1..(Len(words) - 2) :
        words[k] = "500" /\ words[k + 1] = "500" /\ words[k + 2] = "1200"

\* TIME_PAT.search(caption)
TIME_PAT(words) ==
  \/ \E j, k \in 1..Len(words) :
        j < k /\ words[j] \in Weekdays /\ words[k] \in Clocks
  \/ HasWord(words, {"every", "tonight"})

\* WORK_PAT.search(caption)
WORK_PAT(words) ==
  \/ HasWord(words, {"work", "shift", "host", "bartend"})
  \/ HasPair(words, {"on"}, {"duty"})
  \/ HasPair(words, {"campus"}, {"job"})

\* The scoring with the band limits taken inclusively.
_score_caption_le(caption) ==
  IF ~CaptionTruthy(caption)
    THEN [score |-> 0, band |-> "low", detections |-> <<>>]
    ELSE
      LET w  == caption.words
          s  == (IF LOC_PAT(w) THEN 40 ELSE 0) + (IF CONTACT_PAT(w) THEN 25 ELSE 0)
                + (IF TIME_PAT(w) THEN 20 ELSE 0) + (IF WORK_PAT(w) THEN 15 ELSE 0)
          det == (IF LOC_PAT(w) THEN <<"possible_location">> ELSE <<>>)
                 \o (IF CONTACT_PAT(w) THEN <<"contact_info">> ELSE <<>>)
                 \o (IF TIME_PAT(w) THEN <<"schedule_time">> ELSE <<>>)
                 \o (IF WORK_PAT(w) THEN <<"workplace">> ELSE <<>>)
          band == IF s <= 20 THEN "low" ELSE IF s <= 50 THEN "medium" ELSE "high"
      IN  [score |-> s, band |-> band, detections |-> det]

_score_caption(caption) ==
  IF ~CaptionTruthy(caption)
    THEN [score |-> 0, band |-> "low", detections |-> <<>>]
    ELSE
      LET w  == caption.words
          s1 == IF LOC_PAT(w) THEN 40 ELSE 0
          d1 == IF LOC_PAT(w) THEN <<"possible_location">> ELSE <<>>
          s2 == s1 + (IF CONTACT_PAT(w) THEN 25 ELSE 0)
          d2 == d1 \o (IF CONTACT_PAT(w) THEN <<"contact_info">> ELSE <<>>)
          s3 == s2 + (IF TIME_PAT(w) THEN 20 ELSE 0)
          d3 == d2 \o (IF TIME_PAT(w) THEN <<"schedule_time">> ELSE <<>>)
          s  == s3 + (IF WORK_PAT(w) THEN 15 ELSE 0)
          det == d3 \o (IF WORK_PAT(w) THEN <<"workplace">> ELSE <<>>)
          band == IF s < 20 THEN "low" ELSE IF s < 50 THEN "medium" ELSE "high"
      IN  [score |-> s, band |-> band, detections |-> det]

In(x, seq) == \E k \in 1..Len(seq) : seq[k] = x

\* The advice with the privacy-settings entry added only after other advice.
_recs_from_detections_after(detections) ==
  LET r1 == IF In("possible_location", detections) \/ In("schedule_time", detections)
              THEN <<"Remove or generalize exact locations and schedules in captions.">>
              ELSE <<>>
      r2 == r1 \o (IF In("contact_info", detections)
              THEN <<"Remove phone, email, or @handles from public captions.">>
              ELSE <<>>)
      r3 == r2 \o (IF r2 # <<>>
              THEN <<"Tighten TikTok privacy settings for past posts (friends-only or private).">>
              ELSE <<>>)
      r  == IF r3 = <<>>
              THEN <<"No issues detected. Keep captions generic and avoid contact/location details.">>
              ELSE r3
  IN  SubSeq(r, 1, IF Len(r) < 4 THEN Len(r) ELSE 4)

_recs_from_detections(detections) ==
  LET r1 == IF In("possible_location", detections) \/ In("schedule_time", detections)
              THEN <<"Remove or generalize exact locations and schedules in captions.">>
              ELSE <<>>
      r2 == r1 \o (IF In("contact_info", detections)
              THEN <<"Remove phone, email, or @handles from public captions.">>
              ELSE <<>>)
      r3 == r2 \o (IF detections # <<>>
              THEN <<"Tighten TikTok privacy settings for past posts (friends-only or private).">>
              ELSE <<>>)
      r  == IF r3 = <<>>
              THEN <<"No issues detected. Keep captions generic and avoid contact/location details.">>
              ELSE r3
  IN  SubSeq(r, 1, IF Len(r) < 4 THEN Len(r) ELSE 4)

\* ---------------------------------------------------------------- ingest
\* The videos of the remote account, as the list API serves them: the same
\* video twice (its description edited in between), then another video that
\* carries no create_time.
RemoteVideos ==
  << [id |-> "vid-1",
      video_description |-> Text(<<"working", "a", "shift", "at", "the", "campus",
                                   "coffee", "shop", "see", "you", "tonight",
                                   "near", "uncc">>),
      title |-> Null, create_time |-> 300],
     [id |-> "vid-1",
      video_description |-> Text(<<"had", "a", "great", "day">>),
      title |-> Null, create_time |-> 300],
     [id |-> "vid-2",
      video_description |-> Null,
      title |-> Text(<<"call", "me", "at", "704-555-0199">>),
      create_time |-> 0] >>

\* The "videos" lists a response may carry: none, or up to MaxPage
\* consecutive videos of the account.
Pages ==
  {<<>>} \cup
  { SubSeq(RemoteVideos, w[1], w[2]) :
      w \in { x \in (1..Len(RemoteVideos)) \X (1..Len(RemoteVideos)) :
                x[1] <= x[2] /\ x[2] - x[1] < MaxPage } }

\* A video the list API serves without its id.
Malformed ==
  [id |-> None, video_description |-> Text(<<"had", "a", "great", "day">>),
   title |-> Null, create_time |-> 300]

\* The "videos" lists with one such video: it is put at any place of a list
\* of fewer than MaxPage videos.
MalformedPages ==
  { [n \in 1..(Len(x[1]) + 1) |->
       IF n <= x[2] THEN x[1][n] ELSE IF n = x[2] + 1 THEN Malformed ELSE x[1][n - 1]] :
      x \in { y \in Pages \X (0..(MaxPage - 1)) :
                Len(y[1]) < MaxPage /\ y[2] <= Len(y[1]) } }

\* A row built without its band: the column default "low" is stored.
TikTokVideo_defaultband(user_id, v, scanned_at) ==
  LET caption == CaptionOr(v.video_description, v.title)
      scored  == _score_caption(CaptionOr(caption, Text(<<>>)))
      dets    == scored.detections
      recs    == _recs_from_detections(dets)
  IN  [user_id |-> user_id, video_id |-> v.id, caption |-> caption,
       create_time_utc |-> v.create_time, scanned_at |-> scanned_at,
       score |-> scored.score, band |-> "low",
       detections |-> dets, recs |-> recs]

\* class TikTokVideo: the row ingest builds for remote video v (lines 186-208).
\* A create_time that is absent or 0 gives create_time_utc None, written 0.
TikTokVideo(user_id, v, scanned_at) ==
  LET caption == CaptionOr(v.video_description, v.title)
      scored  == _score_caption(CaptionOr(caption, Text(<<>>)))
      dets    == scored.detections
      recs    == _recs_from_detections(dets)
  IN  [user_id |-> user_id, video_id |-> v.id, caption |-> caption,
       create_time_utc |-> v.create_time, scanned_at |-> scanned_at, score |-> scored.score, band |-> scored.band,
       detections |-> dets, recs |-> recs]

\* The query without its descending order: the oldest row.
LatestUser_first ==
  IF tiktok_users = <<>> THEN NoRow ELSE tiktok_users[1]

\* db.query(TikTokUser).order_by(TikTokUser.id.desc()).first()
LatestUser ==
  IF tiktok_users = <<>> THEN NoRow ELSE tiktok_users[Len(tiktok_users)]

\* An ingest without its duplicate check.
VideoExists_never(g, vid) == FALSE

\* db.query(TikTokVideo).filter_by(video_id=vid).first() in request g: the
\* committed rows, and with autoflush the rows this session has added.
VideoExists(g, vid) ==
  /\ vid # None
  /\ \/ \E k \in 1..Len(tiktok_videos) : tiktok_videos[k].video_id = vid
     \/ autoflush /\ \E k \in 1..Len(ing[g].staged) : ing[g].staged[k].video_id = vid

\* nullable=False and UniqueConstraint("video_id") for the rows to insert.
VideosInsertable(rows) ==
  /\ \A k \in 1..Len(rows) : rows[k].video_id # None
  /\ \A j, k \in 1..Len(rows) : j # k => rows[j].video_id # rows[k].video_id
  /\ \A j \in 1..Len(rows) : \A k \in 1..Len(tiktok_videos) :
        rows[j].video_id # tiktok_videos[k].video_id

\* The ids of page vids that tiktok_videos holds.
PageIds(vids)   == { vids[k].id : k \in 1..Len(vids) }
StoredIds(vids) ==
  { x \in PageIds(vids) : \E k \in 1..Len(tiktok_videos) : tiktok_videos[k].video_id = x }

\* ingest, lines 170-176: resolve the user, then post the list request.
ingest_start(g, w) ==
  /\ ing[g].pc = "idle"
  /\ \A x \in Ingests : x < g => ing[x].pc # "idle"
  /\ LoopFree(w, <<"ingest", g>>)
  /\ ing' = [ing EXCEPT ![g] =
       IF LatestUser = NoRow
         THEN RaiseIngest(@, 400,
                "No TikTok user connected. Use /tiktok/login first.")
         ELSE [@ EXCEPT !.pc = "list", !.worker = w,
                        !.user_id = LatestUser.id,
                        !.access_token = LatestUser.access_token]]
  /\ UNCHANGED <<ret, environ, autoflush, now, logins, PKCE_CACHE, cb,
                 tiktok_users, tiktok_videos>>

\* ingest, lines 176-181: the list response arrives.
ingest_list(g, status_code, vids) ==
  /\ ing[g].pc = "list"
  /\ LoopFree(ing[g].worker, <<"ingest", g>>)
  /\ ing' = [ing EXCEPT ![g] =
       IF status_code # 200
         THEN RaiseIngest([@ EXCEPT !.r = status_code], status_code,
                          ResponseText(status_code))
         ELSE [@ EXCEPT !.pc = IF vids = <<>> THEN "commit" ELSE "loop",
                        !.r = status_code, !.vids = vids, !.known = StoredIds(vids), !.i = 1]]
  /\ UNCHANGED <<ret, environ, autoflush, now, logins, PKCE_CACHE, cb,
                 tiktok_users, tiktok_videos>>

\* ingest, lines 182-209: one iteration of the loop over vids.  With
\* autoflush the query of line 184 first inserts the rows this session has
\* added: a row that breaks a constraint of tiktok_videos raises
\* IntegrityError there, and the request ends in a 500.
ingest_item(g) ==
  LET r == ing[g]
      v == r.vids[r.i]
      after == IF r.i = Len(r.vids) THEN "commit" ELSE "loop"
  IN  /\ r.pc = "loop"
      /\ ing' = [ing EXCEPT ![g] =
           IF autoflush /\ ~VideosInsertable(r.staged)
             THEN ReturnIngest(@, 500, "Internal Server Error")
           ELSE IF VideoExists(g, v.id)
             THEN [@ EXCEPT !.pc = after, !.i = r.i + 1]
             ELSE [@ EXCEPT !.pc = after, !.i = r.i + 1,
                            !.staged = Append(r.staged, TikTokVideo(r.user_id, v, now)),
                            !.cnt = r.cnt + 1]]
      /\ UNCHANGED <<ret, environ, autoflush, now, logins, PKCE_CACHE, cb,
                     tiktok_users, tiktok_videos>>

\* ingest, lines 210-211: db.commit().  A row that breaks a constraint of
\* tiktok_videos raises IntegrityError: nothing is stored, the request ends
\* in a 500.
ingest_commit(g) ==
  /\ ing[g].pc = "commit"
  /\ IF VideosInsertable(ing[g].staged)
       THEN /\ tiktok_videos' = tiktok_videos \o ing[g].staged
            /\ ing' = [ing EXCEPT ![g] = ReturnIngest(@, 200, "ingested")]
       ELSE /\ ing' = [ing EXCEPT ![g] = ReturnIngest(@, 500, "Internal Server Error")]
            /\ UNCHANGED tiktok_videos
  /\ UNCHANGED <<ret, environ, autoflush, now, logins, PKCE_CACHE, cb, tiktok_users>>

\* ------------------------------------------------------ read-only calls
SeqsUpTo(S, n) == UNION { [1..k -> S] : k \in 0..n }

Min(a, b) == IF a < b THEN a ELSE b

\* The captions scored: absent, empty, or up to MaxWords of these tokens.
CaptionTokens ==
  {"uncc", "@bob", "tonight", "shift", "fri", "5pm", "1200", "main", "had"}

Captions == {Null} \cup { Text(w) : w \in SeqsUpTo(CaptionTokens, MaxWords) }

\* _score_caption(caption), called on its own.
score_caption(caption) ==
  /\ ret' = [fn |-> "_score_caption", arg |-> caption,
             out |-> _score_caption(caption)]
  /\ UNCHANGED <<environ, autoflush, now, logins, PKCE_CACHE, cb, ing,
                 tiktok_users, tiktok_videos>>

\* The detection tags of the platform mode, and the lists of them.
Tags == {"possible_location", "contact_info", "schedule_time", "workplace"}

\* _recs_from_detections(detections), called on its own.
recs_from_detections(detections) ==
  /\ ret' = [fn |-> "_recs_from_detections", arg |-> detections,
             out |-> _recs_from_detections(detections)]
  /\ UNCHANGED <<environ, autoflush, now, logins, PKCE_CACHE, cb, ing,
                 tiktok_users, tiktok_videos>>

\* app/scoring.py.  A detection is the pair (type, value); the value plays no
\* part, so a list of detections is written as the list of its types.  The
\* totals are floats with integral values, written as integers.
DetectionTypes == <<"email", "phone", "address", "gps">>

WEIGHTS(k) ==
  IF k = "email" THEN 20 ELSE IF k = "phone" THEN 20
  ELSE IF k = "address" THEN 30 ELSE IF k = "gps" THEN 40 ELSE 0

Upper(k) ==
  IF k = "email" THEN "EMAIL" ELSE IF k = "phone" THEN "PHONE"
  ELSE IF k = "address" THEN "ADDRESS" ELSE "GPS"

Count(dets, k) == Cardinality({ n \in 1..Len(dets) : dets[n] = k })

RECURSIVE ScoreLoop(_, _, _, _)
\* The loop over counts.items(), from the n-th type on.
ScoreLoop(dets, n, total, whys) ==
  IF n > Len(DetectionTypes) THEN <<total, whys>>
  ELSE LET k   == DetectionTypes[n]
           c   == Count(dets, k)
           add == WEIGHTS(k) * Min(c, 3)
       IN  IF c > 0
             THEN ScoreLoop(dets, n + 1, total + add,
                    Append(whys, Upper(k) \o " detected x" \o ToString(c)
                                 \o " (+" \o ToString(add) \o ")"))
             ELSE ScoreLoop(dets, n + 1, total, whys)

\* The scoring loop without the cap on the occurrence count.
score_from_detections_uncapped(dets) ==
  LET total == 20 * Count(dets, "email") + 20 * Count(dets, "phone")
               + 30 * Count(dets, "address") + 40 * Count(dets, "gps")
      band  == IF total >= 90 THEN "HIGH" ELSE IF total >= 60 THEN "MEDIUM" ELSE "LOW"
  IN  [total |-> total, band |-> band, whys |-> ScoreLoop(dets, 1, 0, <<>>)[2]]

score_from_detections(dets) ==
  LET looped == ScoreLoop(dets, 1, 0, <<>>)
      total  == looped[1]
      band   == IF total >= 90 THEN "HIGH" ELSE IF total >= 60 THEN "MEDIUM" ELSE "LOW"
  IN  [total |-> total, band |-> band, whys |-> looped[2]]

\* score_from_detections(dets), called on its own.
score_detections(dets) ==
  /\ ret' = [fn |-> "score_from_detections", arg |-> dets,
             out |-> score_from_detections(dets)]
  /\ UNCHANGED <<environ, autoflush, now, logins, PKCE_CACHE, cb, ing,
                 tiktok_users, tiktok_videos>>

\* The videos earlier ingests have stored: the k-th has id vid-k; every
\* second one came without a create_time.
StoredVideo(k) ==
  TikTokVideo(2, [id |-> "vid-" \o ToString(k),
                  video_description |-> Text(<<"had">>), title |-> Null,
                  create_time |-> IF k % 2 = 0 THEN 0 ELSE 300 + (k \div 3)], 0)

StoredTables == { [k \in 1..n |-> StoredVideo(k)] : n \in 0..MaxRows }

\* order_by(create_time_utc.desc().nullslast()): the orders in which the
\* query may return the rows; rows with equal times come in any order.
Ordered(rows) ==
  { [k \in 1..Len(rows) |-> rows[p[k]]] :
      p \in { q \in [1..Len(rows) -> 1..Len(rows)] :
                /\ \A i, j \in 1..Len(rows) : i # j => q[i] # q[j]
                /\ \A i, j \in 1..Len(rows) :
                     i < j => rows[q[i]].create_time_utc >= rows[q[j]].create_time_utc } }

\* .offset(n) and .limit(n) for n >= 0.
Offset(rows, n) == SubSeq(rows, n + 1, Len(rows))
Limit(rows, n)  == SubSeq(rows, 1, Min(n, Len(rows)))

PostItem(r) ==
  [video_id |-> r.video_id, caption |-> r.caption,
   create_time_utc |-> r.create_time_utc, score |-> r.score, band |-> r.band]

\* GET /tiktok/posts, lines 213-216: total = q.count(), the first of the two
\* statements of the handler.
list_posts_count(page, page_size) ==
  /\ ret = NoCall
  /\ ret' = [fn |-> "list_posts_count",
             arg |-> [page |-> page, page_size |-> page_size],
             out |-> [total |-> Len(tiktok_videos)]]
  /\ UNCHANGED <<environ, autoflush, now, logins, PKCE_CACHE, cb, ing,
                 tiktok_users, tiktok_videos>>

\* GET /tiktok/posts, lines 217-229: the second statement reads the page from
\* the table as it is now, and the handler returns.
list_posts(page, page_size) ==
  /\ ret.fn = "list_posts_count"
  /\ ret.arg = [page |-> page, page_size |-> page_size]
  /\ \E q \in Ordered(tiktok_videos) :
       LET rows == Limit(Offset(q, (page - 1) * page_size), page_size)
       IN  ret' = [fn |-> "list_posts",
                   arg |-> [page |-> page, page_size |-> page_size],
                   out |-> [items |-> [k \in 1..Len(rows) |-> PostItem(rows[k])],
                            page |-> page, page_size |-> page_size,
                            total |-> ret.out.total]]
  /\ UNCHANGED <<environ, autoflush, now, logins, PKCE_CACHE, cb, ing,
                 tiktok_users, tiktok_videos>>

\* ------------------------------------------------------------------ spec
\* Status codes the remote endpoints answer with.
StatusCodes == {200, 201, 204, 401, 404}

AuthNext ==
  \/ \E w \in Arrivals : login_url(w)
  \/ \E w \in Arrivals : login(w)
  \/ \E c \in Callbacks, w \in Arrivals, state \in StateInputs :
        callback_consume(c, w, state)
  \/ \E c \in Callbacks, status_code \in StatusCodes :
        callback_token(c, status_code, "refresh-" \o ToString(c))
  \/ \E c \in Callbacks, status_code \in StatusCodes, user \in ProfilesNamed({"Ann"}) :
        callback_profile(c, status_code, user)
  \/ \E c \in Callbacks : callback_commit(c)

IngestNext ==
  \/ Advance
  \/ \E g \in Ingests, w \in Arrivals : ingest_start(g, w)
  \/ \E g \in Ingests, status_code \in StatusCodes, vids \in Pages :
        ingest_list(g, status_code, vids)
  \/ \E g \in Ingests : ingest_item(g)
  \/ \E g \in Ingests : ingest_commit(g)

\* The tables a restarted service may find: the accounts connected so far.
ConnectedUsers ==
  { <<>>,
    << TikTokUser(1, "open-1", "access-11", "refresh-11", ExpiresIn, "Ann", None),
       TikTokUser(2, "open-2", "access-12", "refresh-12", ExpiresIn, None, None) >> }

IngestInit ==
  /\ environ \in { e \in Environments : e.TIKTOK_CLIENT_KEY # None }
  /\ autoflush \in BOOLEAN
  /\ now = 0
  /\ logins = <<>>
  /\ PKCE_CACHE = [w \in Workers |-> EmptyDict]
  /\ cb = [c \in Callbacks |-> IdleCallback]
  /\ ing = [g \in Ingests |-> IdleIngest]
  /\ tiktok_users \in ConnectedUsers
  /\ tiktok_videos = <<>>
  /\ ret = NoCall

\* The calls that change nothing (the two scoring modes, the advice) over a
\* table that earlier ingests filled.
QueryInit ==
  /\ environ \in { e \in Environments : e.TIKTOK_CLIENT_KEY # None }
  /\ autoflush \in BOOLEAN
  /\ now = 0
  /\ logins = <<>>
  /\ PKCE_CACHE = [w \in Workers |-> EmptyDict]
  /\ cb = [c \in Callbacks |-> IdleCallback]
  /\ ing = [g \in Ingests |-> IdleIngest]
  /\ tiktok_users \in ConnectedUsers \ {<<>>}
  /\ tiktok_videos \in StoredTables
  /\ ret = NoCall

\* One call is made in a behaviour.
QueryNext ==
  \/ ret = NoCall /\ \E caption \in Captions : score_caption(caption)
  \/ ret = NoCall /\ \E detections \in SeqsUpTo(Tags, MaxDets) :
        recs_from_detections(detections)
  \/ ret = NoCall /\ \E dets \in SeqsUpTo({"email", "phone", "address", "gps"}, MaxDets) :
        score_detections(dets)

SpecQuery == QueryInit /\ [][QueryNext]_vars

\* A listing over a table that earlier ingests filled, while ingests of
\* one-video pages run on the workers.
ListingNext ==
  \/ \E g \in 1..NumReauth, w \in Arrivals : ingest_start(g, w)
  \/ \E g \in Ingests, k \in DOMAIN RemoteVideos : ingest_list(g, 200, <<RemoteVideos[k]>>)
  \/ \E g \in Ingests : ingest_item(g)
  \/ \E g \in Ingests : ingest_commit(g)
  \/ \E page \in 1..(MaxRows + 1), page_size \in 0..(MaxRows + 1) :
        list_posts_count(page, page_size)
  \/ \E page \in 1..(MaxRows + 1), page_size \in 0..(MaxRows + 1) :
        list_posts(page, page_size)

SpecListing == QueryInit /\ [][ListingNext]_vars

\* Ingestion when the list API may serve a video without id.
MalformedNext ==
  \/ \E g \in Ingests, w \in Arrivals : ingest_start(g, w)
  \/ \E g \in Ingests, vids \in MalformedPages \cup { q \in Pages : Len(q) = 1 } :
        ingest_list(g, 200, vids)
  \/ \E g \in Ingests : ingest_item(g)
  \/ \E g \in Ingests : ingest_commit(g)

SpecMalformed == IngestInit /\ [][MalformedNext]_vars

\* One ingestion while further accounts connect: one account is connected at the
\* start, callbacks succeed at both endpoints for accounts that have no row
\* yet, the list API answers 200 with a page of one video.
OwnerInit ==
  /\ environ \in { e \in Environments : e.TIKTOK_CLIENT_KEY # None }
  /\ autoflush \in BOOLEAN
  /\ now = 0
  /\ logins = <<>>
  /\ PKCE_CACHE = [w \in Workers |-> EmptyDict]
  /\ cb = [c \in Callbacks |-> IdleCallback]
  /\ ing = [g \in Ingests |-> IdleIngest]
  /\ tiktok_users \in { SubSeq(t, 1, 1) : t \in ConnectedUsers \ {<<>>} }
  /\ tiktok_videos = <<>>
  /\ ret = NoCall

OwnerNext ==
  \/ \E w \in Arrivals : Len(logins) < NumReauth /\ login(w)
  \/ \E c \in 1..NumReauth, w \in Arrivals, k \in 1..Len(logins) :
        callback_consume(c, w, logins[k].state)
  \/ \E c \in Callbacks : callback_token(c, 200, "refresh-" \o ToString(c))
  \/ \E c \in Callbacks, user \in ProfilesNamed({"Ann"}) :
        UserByOpenId(user.open_id) = NoRow /\ callback_profile(c, 200, user)
  \/ \E c \in Callbacks : callback_commit(c)
  \/ \E w \in Arrivals : ingest_start(1, w)
  \/ \E g \in Ingests, k \in DOMAIN RemoteVideos : ingest_list(g, 200, <<RemoteVideos[k]>>)
  \/ \E g \in Ingests : ingest_item(g)
  \/ \E g \in Ingests : ingest_commit(g)

SpecOwner == OwnerInit /\ [][OwnerNext]_vars

Next == AuthNext \/ IngestNext

\* The whole service.
Spec == Init /\ [][Next]_vars

\* The authorization flow of a service started with its three settings.
AuthInit == Init /\ environ.TIKTOK_CLIENT_KEY # None

SpecAuth == AuthInit /\ [][AuthNext]_vars

\* The authorization flow in any environment, while time passes.
AuthEnvNext == Advance \/ AuthNext

SpecAuthEnv == Init /\ [][AuthEnvNext]_vars

\* The ingestion pipeline of a service started over connected accounts.
SpecIngest == IngestInit /\ [][IngestNext]_vars

\* Re-authorization: callbacks for accounts that may already be connected.
\* The user-info endpoint may leave the name and the avatar out, or send the
\* name empty; the token endpoint may repeat a refresh token it issued before.
Profiles ==
  { [open_id |-> o, display_name |-> d, avatar_url |-> a] :
      o \in OpenIds, d \in {None, "", "Ann", "Bea"}, a \in {None, "b.png"} }

RefreshTokens(c) == {"refresh-11", "refresh-" \o ToString(c)}

ReauthNext ==
  \/ Advance
  \/ \E w \in Arrivals : login(w)
  \/ \E c \in Callbacks, w \in Arrivals, k \in 1..Len(logins) :
        callback_consume(c, w, logins[k].state)
  \/ \E c \in Callbacks : \E refresh_token \in RefreshTokens(c) :
        callback_token(c, 200, refresh_token)
  \/ \E c \in Callbacks, user \in Profiles : callback_profile(c, 200, user)
  \/ \E c \in Callbacks : callback_commit(c)

SpecReauth == IngestInit /\ [][ReauthNext]_vars

\* The ingest resolves its user while accounts connect and re-connect: the
\* callbacks succeed at both endpoints, the list API answers with an error.
TargetNext ==
  \/ \E w \in Arrivals : Len(logins) < NumReauth /\ login(w)
  \/ \E c \in 1..NumReauth, w \in Arrivals, k \in 1..Len(logins) :
        callback_consume(c, w, logins[k].state)
  \/ \E c \in Callbacks : callback_token(c, 200, "refresh-" \o ToString(c))
  \/ \E c \in Callbacks, user \in ProfilesNamed({"Ann"}) :
        callback_profile(c, 200, user)
  \/ \E c \in Callbacks : callback_commit(c)
  \/ \E g \in Ingests, w \in Arrivals : ingest_start(g, w)
  \/ \E g \in Ingests : ingest_list(g, 401, <<>>)

SpecTarget == IngestInit /\ [][TargetNext]_vars

\* ---------------------------------------------------------------- claims
\* The callbacks that were handed the code verifier of state s.
Holders(s) ==
  { c \in Callbacks : cb[c].state = s /\ cb[c].code_verifier # None }

\* Callback c runs its first step (the lookup of its state) in this step.
Consumes(c) == cb[c].pc = "idle" /\ cb'[c].pc # "idle"

\* C1: once a callback has obtained the verifier of a state, every later
\* callback carrying that state ends at its lookup with status 400 (the
\* missing-verifier error), wherever the first callback stands or ended.
C1_SecondConsumeFails ==
  [][\A c \in Callbacks :
       (Consumes(c) /\ Holders(cb'[c].state) \ {c} # {})
         => /\ cb'[c].pc = "done"
            /\ cb'[c].status = 400
            /\ cb'[c].code_verifier = None]_vars

C1_Witness ==
  \E c, x \in Callbacks :
    /\ c # x
    /\ cb[x].state = cb[c].state
    /\ cb[x].code_verifier # None
    /\ cb[c].pc = "done" /\ cb[c].status = 400

\* C2: for every session a login created, the callbacks that carry its state
\* and obtained its verifier are exactly one once the state has left the
\* cache of the worker that created it, and none before; every other callback
\* that carried the state ended with status 400 without a verifier.
C2_ExactlyOneHolder ==
  \A k \in 1..Len(logins) :
    LET s == logins[k].state
    IN  /\ Cardinality(Holders(s)) =
             IF s \in DOMAIN PKCE_CACHE[logins[k].worker] THEN 0 ELSE 1
        /\ \A c \in Callbacks :
             (cb[c].pc # "idle" /\ cb[c].state = s /\ c \notin Holders(s))
               => cb[c].pc = "done" /\ cb[c].status = 400

\* Two callbacks for one state are in flight or over: one holds the verifier
\* and waits for the token endpoint, the other was refused.
C2_Witness ==
  \E c, x \in Callbacks :
    /\ c # x
    /\ cb[x].state = cb[c].state
    /\ cb[x].pc = "token" /\ cb[x].code_verifier # None
    /\ cb[c].pc = "done" /\ cb[c].status = 400

\* C3 (as claimed): a callback whose state was issued more than TTL seconds
\* ago ends at its lookup with status 400 and obtains no verifier.
C3_ExpiredSessionFails ==
  [][\A c \in Callbacks : \A k \in 1..Len(logins) :
       (Consumes(c) /\ cb'[c].state = logins[k].state /\ now - logins[k].at > TTL)
         => cb'[c].status = 400 /\ cb'[c].code_verifier = None]_vars

\* C6: tiktok_users never holds two rows with one open_id, and a commit of a
\* callback whose open_id has a row adds no row; when the callback had found
\* that row it succeeds and the row carries the callback's access token.
UniqueOpenIds ==
  \A j, k \in 1..Len(tiktok_users) :
    j # k => tiktok_users[j].open_id # tiktok_users[k].open_id

C6_OneRowPerOpenId ==
  [][/\ UniqueOpenIds'
     /\ \A c \in Callbacks :
          (cb[c].pc = "upsert" /\ cb'[c].pc = "done"
             /\ \E k \in 1..Len(tiktok_users) :
                  tiktok_users[k].open_id = cb[c].user.open_id)
            => /\ Len(tiktok_users') = Len(tiktok_users)
               /\ cb[c].rec # NoRow =>
                    /\ cb'[c].status = 200
                    /\ tiktok_users'[cb[c].rec.id].open_id = cb[c].user.open_id
                    /\ tiktok_users'[cb[c].rec.id].access_token = cb[c].access_token]_vars

\* Two callbacks for one account both succeeded and left a single row.
C6_Witness ==
  /\ Len(tiktok_users) = 1
  /\ \E c, x \in Callbacks :
       /\ c # x
       /\ cb[c].pc = "done" /\ cb[c].status = 200 /\ cb[c].detail = "ok"
       /\ cb[x].pc = "done" /\ cb[x].status = 200 /\ cb[x].detail = "ok"

\* C7: a callback only moves forward through lookup, token exchange, profile
\* fetch and upsert; tiktok_users changes only in the commit of a callback
\* that holds a verifier and got 200 from both the token and the profile
\* call; a callback that fails ends there and leaves tiktok_users unchanged.
CallbackMoves ==
  { <<"idle", "token">>, <<"idle", "done">>, <<"token", "profile">>,
    <<"token", "done">>, <<"profile", "upsert">>, <<"profile", "done">>,
    <<"upsert", "done">> }

C7_StepOrder ==
  [][/\ \A c \in Callbacks :
          cb'[c] # cb[c] => <<cb[c].pc, cb'[c].pc>> \in CallbackMoves
     /\ tiktok_users' # tiktok_users =>
          \E c \in Callbacks :
            /\ cb[c].pc = "upsert" /\ cb'[c].pc = "done" /\ cb'[c].status = 200
            /\ cb[c].code_verifier # None
            /\ cb[c].tok = 200 /\ cb[c].uinfo = 200
     /\ \A c \in Callbacks :
          (cb[c].status = 0 /\ cb'[c].status # 0 /\ cb'[c].detail # "ok")
            => cb'[c].pc = "done" /\ tiktok_users' = tiktok_users]_vars

\* One callback went through all four steps; another failed after its lookup
\* on an upstream 404 and was answered with the home page.
C7_Witness ==
  /\ Len(tiktok_users) = 1
  /\ \E c, x \in Callbacks :
       /\ cb[c].pc = "done" /\ cb[c].status = 200 /\ cb[c].detail = "ok"
       /\ cb[x].pc = "done" /\ cb[x].detail = HOME_HTML /\ cb[x].code_verifier # None

\* C8: the state of a callback that obtained a verifier and has returned,
\* with whatever status, is in no worker's cache, and every other callback
\* that carried the same state was refused with status 400.
C8_DestroyedOnAnyOutcome ==
  \A c \in Callbacks :
    (cb[c].pc = "done" /\ cb[c].code_verifier # None)
      => /\ \A w \in Workers : cb[c].state \notin DOMAIN PKCE_CACHE[w]
         /\ \A x \in Callbacks \ {c} :
              (cb[x].pc # "idle" /\ cb[x].state = cb[c].state)
                => cb[x].pc = "done" /\ cb[x].status = 400

\* A callback failed at the token or profile call; its retry was refused.
C8_Witness ==
  \E c, x \in Callbacks :
    /\ c # x
    /\ cb[c].pc = "done" /\ cb[c].status = 401 /\ cb[c].code_verifier # None
    /\ cb[x].pc = "done" /\ cb[x].status = 400 /\ cb[x].state = cb[c].state

\* C10 (as claimed): with a missing or placeholder client key, client secret
\* or redirect URI no session is created and no callback reaches the token
\* endpoint.
Placeholder(value) == value \in {None, "", "xxx"}

C10_RefusesPlaceholders ==
  (\/ Placeholder(TIKTOK_CLIENT_KEY)
   \/ Placeholder(TIKTOK_CLIENT_SECRET)
   \/ Placeholder(environ.TIKTOK_REDIRECT_URI))
    => /\ logins = <<>>
       /\ \A w \in Workers : PKCE_CACHE[w] = EmptyDict
       /\ \A c \in Callbacks : cb[c].code_verifier = None

\* ------------------------------------------------------- claims on ingest
DistinctIds(vids) ==
  \A j, k \in 1..Len(vids) : j # k => vids[j].id # vids[k].id

RowsOf(videos, vid) ==
  Cardinality({ k \in 1..Len(videos) : videos[k].video_id = vid })

\* Ingest g returns in this step from its commit.
Commits(g) == ing[g].pc = "commit" /\ ing'[g].pc = "done"

\* C4: for a page of distinct ids, an ingest that commits while none of them
\* is stored returns 200 with ingested = N, an ingest whose page was wholly
\* stored when its response arrived returns 200 with ingested = 0 and stores
\* nothing, and after a successful ingest every id of the page has one row.
C4_Idempotent ==
  [][\A g \in Ingests :
       (Commits(g) /\ DistinctIds(ing[g].vids))
         => /\ StoredIds(ing[g].vids) = {}
                => /\ ing'[g].status = 200
                   /\ ing'[g].cnt = Len(ing[g].vids)
            /\ ing[g].known = PageIds(ing[g].vids)
                => /\ ing'[g].status = 200
                   /\ ing'[g].cnt = 0
                   /\ tiktok_videos' = tiktok_videos
            /\ ing'[g].status = 200
                => \A vid \in PageIds(ing[g].vids) : RowsOf(tiktok_videos', vid) = 1]_vars

\* One ingest stored a page of two videos; a second ingest got the same two
\* videos, skipped both and is about to commit nothing.
C4_Witness ==
  \E g, h \in Ingests :
    /\ g # h
    /\ ing[g].pc = "done" /\ ing[g].status = 200 /\ ing[g].detail = "ingested" /\ ing[g].cnt = 2
    /\ Len(tiktok_videos) = 2
    /\ ing[h].pc = "commit" /\ Len(ing[h].vids) = 2 /\ DistinctIds(ing[h].vids)
    /\ ing[h].known = PageIds(ing[h].vids)
    /\ ing[h].cnt = 0

\* C5 (as claimed): an ingest of a page of distinct ids whose commit meets a
\* row stored meanwhile by another ingest still returns 200, and its staged
\* rows with other ids are stored.
C5_ViolationTolerated ==
  [][\A g \in Ingests :
       (Commits(g) /\ DistinctIds(ing[g].vids))
         => /\ ing'[g].status = 200
            /\ \A k \in 1..Len(ing[g].staged) :
                 RowsOf(tiktok_videos', ing[g].staged[k].video_id) = 1]_vars

\* C9 (as claimed): an ingest whose list response is not 2xx returns at once with the
\* upstream status and body, having staged and counted nothing, and
\* tiktok_videos is unchanged.
C9_RemoteErrorAborts ==
  [][\A g \in Ingests :
       (ing[g].pc = "list" /\ ing'[g] # ing[g] /\ ing'[g].r \notin 200..299)
         => /\ ing'[g].pc = "done"
            /\ ing'[g].status = ing'[g].r
            /\ ing'[g].detail = ResponseText(ing'[g].r)
            /\ ing'[g].cnt = 0 /\ ing'[g].staged = <<>>
            /\ tiktok_videos' = tiktok_videos]_vars

\* ------------------------------------------------ claims on the upsert
\* Callback c commits in this step over the row it had found.
Reauthorizes(c) ==
  /\ cb[c].pc = "upsert" /\ cb'[c].pc = "done" /\ cb'[c].status = 200
  /\ cb[c].rec # NoRow

\* C11 (as claimed): when a callback commits for an account that has a row,
\* the row's display_name (avatar_url) becomes the value of the profile when
\* that value is non-empty, and otherwise keeps the value stored before the
\* commit; the rest of the table is untouched.
C11_ProfileFieldsPreserved ==
  [][\A c \in Callbacks :
       Reauthorizes(c) =>
         LET old  == tiktok_users[cb[c].rec.id]
             new  == tiktok_users'[cb[c].rec.id]
             user == cb[c].user
         IN  /\ new.display_name =
                  IF Truthy(user.display_name) THEN user.display_name
                                               ELSE old.display_name
             /\ new.avatar_url =
                  IF Truthy(user.avatar_url) THEN user.avatar_url
                                             ELSE old.avatar_url]_vars

\* C20 (as claimed): every change of a row of tiktok_users is the commit of
\* one callback and leaves the row with that callback's access token,
\* refresh token and expiry together, so that no reader of the table finds
\* the credentials of two authorizations mixed in one row.
C20_CredentialsTogether ==
  [][\A k \in 1..Len(tiktok_users') :
       (k > Len(tiktok_users) \/ tiktok_users'[k] # tiktok_users[k])
         => \E c \in Callbacks :
              /\ cb[c].pc = "upsert" /\ cb'[c].pc = "done"
              /\ tiktok_users'[k].open_id = cb[c].user.open_id
              /\ tiktok_users'[k].access_token = cb[c].access_token
              /\ tiktok_users'[k].refresh_token = cb[c].refresh_token
              /\ tiktok_users'[k].expires_at = cb[c].expires_at]_vars

\* Ingest g runs its first step (it resolves its user) in this step.
Resolves(g) == ing[g].pc = "idle" /\ ing'[g].pc # "idle"

\* C12: an ingest that finds tiktok_users empty returns 400 at once, with no
\* list response received and tiktok_videos unchanged; otherwise it goes on
\* to the list call with the id and access token of the row with the highest
\* id, whichever rows callbacks have re-authorized since.
C12_TargetsLatestUser ==
  [][\A g \in Ingests :
       Resolves(g) =>
         IF tiktok_users = <<>>
           THEN /\ ing'[g].pc = "done" /\ ing'[g].status = 400
                /\ ing'[g].r = 0
                /\ tiktok_videos' = tiktok_videos
           ELSE /\ ing'[g].pc = "list"
                /\ \E k \in 1..Len(tiktok_users) :
                     /\ \A j \in 1..Len(tiktok_users) :
                          tiktok_users[j].id <= tiktok_users[k].id
                     /\ ing'[g].user_id = tiktok_users[k].id
                     /\ ing'[g].access_token = tiktok_users[k].access_token]_vars

\* A callback re-authorized the older account (row 1 carries its token), and
\* an ingest that started afterwards targets row 2.
C12_Witness ==
  /\ Len(tiktok_users) = 2
  /\ \E c \in Callbacks :
       /\ cb[c].pc = "done" /\ cb[c].status = 200 /\ cb[c].detail = "ok"
       /\ tiktok_users[1].access_token = "access-" \o ToString(c)
  /\ \E g \in Ingests :
       /\ ing[g].pc = "list" /\ ing[g].user_id = 2
       /\ ing[g].access_token = tiktok_users[2].access_token

\* ------------------------------------------- claims on the read-only calls
\* C13: _score_caption of a non-empty caption returns the sum of the weights
\* of the classes whose pattern the caption matches (location 40, contact 25,
\* schedule 20, workplace 15), the band low below 20, medium from 20 and
\* below 50, high from 50, and one detection per matched class; of an absent
\* or empty caption it returns 0, low and no detection.
C13_ScoreIsSumOfWeights ==
  ret.fn = "_score_caption" =>
    LET w     == ret.arg.words
        out   == ret.out
        loc   == ~ret.arg.null /\ LOC_PAT(w)
        con   == ~ret.arg.null /\ CONTACT_PAT(w)
        tim   == ~ret.arg.null /\ TIME_PAT(w)
        wrk   == ~ret.arg.null /\ WORK_PAT(w)
        sum   == (IF loc THEN 40 ELSE 0) + (IF con THEN 25 ELSE 0)
                 + (IF tim THEN 20 ELSE 0) + (IF wrk THEN 15 ELSE 0)
        count == Cardinality({ x \in {<<1, loc>>, <<2, con>>, <<3, tim>>, <<4, wrk>>} : x[2] })
    IN  /\ (ret.arg.null \/ w = <<>>) =>
             out.score = 0 /\ out.band = "low" /\ out.detections = <<>>
        /\ out.score = sum
        /\ out.band = "low" <=> out.score < 20
        /\ out.band = "medium" <=> (20 <= out.score /\ out.score < 50)
        /\ out.band = "high" <=> out.score >= 50
        /\ In("possible_location", out.detections) <=> loc
        /\ In("contact_info", out.detections) <=> con
        /\ In("schedule_time", out.detections) <=> tim
        /\ In("workplace", out.detections) <=> wrk
        /\ Len(out.detections) = count

\* A caption with exactly the schedule class was scored 20, medium.
C13_Witness ==
  /\ ret.fn = "_score_caption"
  /\ ret.out.detections = <<"schedule_time">>
  /\ ret.out.score = 20 /\ ret.out.band = "medium"

\* The four entries of advice, in their order of priority.
Advice ==
  << "Remove or generalize exact locations and schedules in captions.",
     "Remove phone, email, or @handles from public captions.",
     "Tighten TikTok privacy settings for past posts (friends-only or private).",
     "No issues detected. Keep captions generic and avoid contact/location details." >>

Rank(entry) == CHOOSE n \in 1..Len(Advice) : Advice[n] = entry

\* C14: _recs_from_detections returns between 1 and 4 entries of advice in
\* strictly rising priority (so none twice): the location-or-schedule entry
\* exactly when one of the two classes is detected, the contact entry exactly
\* when contact is, the privacy-settings entry exactly when anything is, and
\* the generic entry, alone, exactly when nothing is.
C14_RecsInPriorityOrder ==
  ret.fn = "_recs_from_detections" =>
    LET d   == ret.arg
        out == ret.out
    IN  /\ Len(out) \in 1..4
        /\ \A n \in 1..Len(out) : In(out[n], Advice)
        /\ \A m, n \in 1..Len(out) : m < n => Rank(out[m]) < Rank(out[n])
        /\ In(Advice[1], out) <=> (In("possible_location", d) \/ In("schedule_time", d))
        /\ In(Advice[2], out) <=> In("contact_info", d)
        /\ In(Advice[3], out) <=> d # <<>>
        /\ In(Advice[4], out) <=> d = <<>>
        /\ out = <<Advice[4]>> <=> d = <<>>

\* Workplace alone was detected: only the privacy-settings entry is returned.
C14_Witness ==
  /\ ret.fn = "_recs_from_detections"
  /\ ret.arg = <<"workplace">>
  /\ ret.out = <<Advice[3]>>

\* C15 (as claimed): the number of items list_posts returns is
\* min(page_size, total - (page - 1) * page_size) for the total it returns,
\* or none when that is negative, for every page >= 1 and page_size >= 0.
C15_Pagination ==
  ret.fn = "list_posts" =>
    LET rest == ret.out.total - (ret.arg.page - 1) * ret.arg.page_size
        n    == Min(ret.arg.page_size, rest)
    IN  Len(ret.out.items) = IF n < 0 THEN 0 ELSE n

\* C16: score_from_detections returns the sum over the four types of weight
\* times min(occurrences, 3), with weights email 20, phone 20, address 30,
\* gps 40, and the band LOW below 60, MEDIUM from 60 and below 90, HIGH from
\* 90; one phone and one email give 40 and LOW.
C16_DirectUploadScore ==
  ret.fn = "score_from_detections" =>
    LET dets == ret.arg
        out  == ret.out
        sum  == 20 * Min(Count(dets, "email"), 3) + 20 * Min(Count(dets, "phone"), 3)
                + 30 * Min(Count(dets, "address"), 3) + 40 * Min(Count(dets, "gps"), 3)
    IN  /\ out.total = sum
        /\ out.band = "LOW" <=> out.total < 60
        /\ out.band = "MEDIUM" <=> (60 <= out.total /\ out.total < 90)
        /\ out.band = "HIGH" <=> out.total >= 90
        /\ (Len(dets) = 2 /\ Count(dets, "phone") = 1 /\ Count(dets, "email") = 1)
             => out.total = 40 /\ out.band = "LOW"

\* Four addresses were scored as three: 90, HIGH.
C16_Witness ==
  /\ ret.fn = "score_from_detections"
  /\ Count(ret.arg, "address") = 4
  /\ ret.out.total = 90 /\ ret.out.band = "HIGH"

\* ------------------------------------------------ more claims on ingest
\* C17 (as claimed): tiktok_videos never holds two rows with one video_id,
\* and no ingest stages two rows with one video_id or counts more than the
\* distinct ids of its page, also when the page lists an id twice.
C17_NoDuplicateStaging ==
  /\ \A j, k \in 1..Len(tiktok_videos) :
       j # k => tiktok_videos[j].video_id # tiktok_videos[k].video_id
  /\ \A g \in Ingests :
       /\ \A j, k \in 1..Len(ing[g].staged) :
            j # k => ing[g].staged[j].video_id # ing[g].staged[k].video_id
       /\ ing[g].pc \in {"loop", "commit"} =>
            ing[g].cnt <= Cardinality(PageIds(ing[g].vids))

\* Ingest g handles the item at position i of its page in this step.
Handles_item(g) == ing[g].pc = "loop" /\ ing'[g].i = ing[g].i + 1

\* C18: no step changes or removes a row of tiktok_videos (rows are only
\* added at the end), and an ingest that handles an item whose id is stored
\* stages nothing and leaves its count as it is, whatever caption the item
\* now carries.
C18_StoredRowsUntouched ==
  [][/\ Len(tiktok_videos') >= Len(tiktok_videos)
     /\ \A k \in 1..Len(tiktok_videos) : tiktok_videos'[k] = tiktok_videos[k]
     /\ \A g \in Ingests :
          (Handles_item(g)
             /\ \E k \in 1..Len(tiktok_videos) :
                  tiktok_videos[k].video_id = ing[g].vids[ing[g].i].id)
            => /\ ing'[g].cnt = ing[g].cnt
               /\ ing'[g].staged = ing[g].staged]_vars

\* vid-1 is stored with its first caption; a later ingest was served a page
\* that lists vid-1 with the edited caption, has run its loop over it, and
\* stands at its commit having staged and counted nothing, the row as it was.
C18_Witness ==
  /\ Len(tiktok_videos) = 1
  /\ tiktok_videos[1].video_id = "vid-1"
  /\ tiktok_videos[1].caption = RemoteVideos[1].video_description
  /\ tiktok_videos[1].score = 75 /\ tiktok_videos[1].band = "high"
  /\ \E g \in Ingests :
       /\ ing[g].pc = "commit" /\ ing[g].r = 200
       /\ ing[g].vids = <<RemoteVideos[2]>> /\ ing[g].i = 2
       /\ ing[g].vids[1].id = "vid-1"
       /\ ing[g].vids[1].video_description # tiktok_videos[1].caption
       /\ ing[g].known = {"vid-1"}
       /\ ing[g].cnt = 0 /\ ing[g].staged = <<>>
       /\ now > tiktok_videos[1].scanned_at

\* C19 (as claimed): when an ingest whose page holds a video without id
\* commits, every row it staged for a video with an id is stored.
C19_MalformedItemIsolated ==
  [][\A g \in Ingests :
       Commits(g) =>
         \A k \in 1..Len(ing[g].staged) :
           ing[g].staged[k].video_id # None
             => RowsOf(tiktok_videos', ing[g].staged[k].video_id) = 1]_vars

\* ------------------------------------------- more claims on the callback
\* The states some worker's cache holds.
Pending == UNION { DOMAIN PKCE_CACHE[w] : w \in Workers }

\* C21: a callback whose state is absent, empty or in no cache ends at its
\* lookup with status 400 and without a verifier, having received no token
\* response; every cache and tiktok_users are as before.
C21_UnknownStateRefused ==
  [][\A c \in Callbacks :
       (Consumes(c) /\ (cb'[c].state \in {None, ""} \/ cb'[c].state \notin Pending))
         => /\ cb'[c].pc = "done"
            /\ cb'[c].status = 400
            /\ cb'[c].code_verifier = None
            /\ cb'[c].tok = 0
            /\ PKCE_CACHE' = PKCE_CACHE
            /\ tiktok_users' = tiktok_users]_vars

\* A callback without state was refused while a session is pending and an
\* account is connected: both are still there.
C21_Witness ==
  /\ Pending # {}
  /\ tiktok_users # <<>>
  /\ \E c \in Callbacks :
       cb[c].pc = "done" /\ cb[c].status = 400 /\ cb[c].state = None

\* C22: the logins issued pairwise distinct states; every cache entry is the
\* verifier of the login that issued its state, at the worker that served
\* that login; and the verifier a callback holds, which is the one its token
\* request carries, is the verifier of the login that issued the callback's
\* state, whose challenge is in that login's authorization URL.
C22_VerifierBoundToState ==
  /\ \A j, k \in 1..Len(logins) : j # k => logins[j].state # logins[k].state
  /\ \A w \in Workers : \A s \in DOMAIN PKCE_CACHE[w] :
       \E k \in 1..Len(logins) :
         /\ logins[k].state = s /\ logins[k].worker = w
         /\ logins[k].code_verifier = PKCE_CACHE[w][s]
  /\ \A c \in Callbacks :
       cb[c].code_verifier # None =>
         \E k \in 1..Len(logins) :
           /\ logins[k].state = cb[c].state
           /\ logins[k].code_verifier = cb[c].code_verifier
           /\ logins[k].auth_url.state = cb[c].state
           /\ logins[k].auth_url.code_challenge = S256(cb[c].code_verifier)
           /\ cb[c].pc = "token" => TokenRequest(c).code_verifier = logins[k].code_verifier

\* Two sessions were pending at one worker; the callback for the second is
\* at the token endpoint with the second verifier, the first is still cached.
C22_Witness ==
  /\ Len(logins) = 2
  /\ logins[1].worker = logins[2].worker
  /\ logins[1].state \in DOMAIN PKCE_CACHE[logins[1].worker]
  /\ \E c \in Callbacks :
       /\ cb[c].pc = "token"
       /\ cb[c].state = logins[2].state
       /\ cb[c].code_verifier = logins[2].code_verifier

\* The sum of the platform weights of the tags a list of detections holds.
WeightOf(detections) ==
  (IF In("possible_location", detections) THEN 40 ELSE 0)
  + (IF In("contact_info", detections) THEN 25 ELSE 0)
  + (IF In("schedule_time", detections) THEN 20 ELSE 0)
  + (IF In("workplace", detections) THEN 15 ELSE 0)

\* C23: every row of tiktok_videos has the band of its score (low below 20,
\* medium below 50, high from 50), the score that is the sum of the weights
\* of its detections, and the advice derived from its detections; an ingest
\* resolves the row of tiktok_users with the highest id when it starts, and
\* the rows its commit adds belong to that user, whichever accounts have
\* connected in between.
C23_RowsConsistentAndOwned ==
  [][/\ \A k \in 1..Len(tiktok_videos') :
          LET row == tiktok_videos'[k]
          IN  /\ row.band = (IF row.score < 20 THEN "low"
                             ELSE IF row.score < 50 THEN "medium" ELSE "high")
              /\ row.score = WeightOf(row.detections)
              /\ row.recs = _recs_from_detections(row.detections)
     /\ \A g \in Ingests :
          /\ (Resolves(g) /\ tiktok_users # <<>>) =>
                /\ ing'[g].user_id = tiktok_users[Len(tiktok_users)].id
                /\ \A j \in 1..Len(tiktok_users) : tiktok_users[j].id <= ing'[g].user_id
          /\ (ing[g].pc # "idle" /\ ing'[g].pc # "done") =>
                ing'[g].user_id = ing[g].user_id
          /\ Commits(g) =>
                \A k \in (Len(tiktok_videos) + 1)..Len(tiktok_videos') :
                  tiktok_videos'[k].user_id = ing[g].user_id]_vars

\* An ingest started for user 1, a second account connected meanwhile, and
\* the high-risk row the ingest stored belongs to user 1.
C23_Witness ==
  /\ Len(tiktok_users) = 2
  /\ \E k \in 1..Len(tiktok_videos) :
       /\ tiktok_videos[k].user_id = 1
       /\ tiktok_videos[k].score = 75 /\ tiktok_videos[k].band = "high"

====
